---- MODULE Spec2Model ----
(***************************************************************************)
(* Model of sqlite3-cli.js: the interrupter, the readline line source,     *)
(* the backpressure-aware writer, runStatement and the loop of start().    *)
(*                                                                         *)
(* JavaScript runs each event-loop callback to completion and then drains   *)
(* the promise jobs it queued.  The model keeps that discipline: the        *)
(* async functions advance by "loop steps" whenever they are Runnable, and  *)
(* callbacks of the collaborators (sqlite3, the streams, readline) are      *)
(* delivered only when nothing is Runnable.  The one exception is           *)
(* readline, which emits several events synchronously from one input        *)
(* chunk: inBatch marks that such a chunk is still being delivered.         *)
(***************************************************************************)
EXTENDS Integers, Sequences, FiniteSets, TLC

\* ---------------------------------------------------------------- bounds
MaxLines == 2
MaxStmts == 1
MaxRows == 2
MaxInterrupts == 2
MaxSinkErrors == 1

\* The texts the medium may deliver: empty, whitespace-only, a statement.
LineTexts == { <<>>, <<" ">>, <<"s">> }

VARIABLES
    pc,          \* position of start() / runStatement() / write()
    slots,       \* every receiver promise ever created by newChannel
    receiver,    \* index in slots of interrupter.receiver
    raceSlot,    \* the receiver captured by the Promise.race being awaited
    buffer,      \* createReadlineAsyncIterator: buffer
    resolver,    \* createReadlineAsyncIterator: resolver ("push" | "resolve")
    lineRes,     \* settlement of the promise made by the latest nextLine()
    paused,      \* rl is paused
    closed,      \* rl has emitted "close"
    terminal,    \* this.terminal
    inBatch,     \* readline is still emitting events of one input chunk
    line,        \* const line of the current iteration of start()
    stmt,        \* id of the statement held by runStatement (0: none)
    getQ,        \* stmt.get calls whose callback has not run yet
    nextRowId,   \* id of the promise held in nextRow
    nextRow,     \* settlement of the promise held in nextRow
    cursor,      \* rows the engine has delivered for the statement
    row,         \* let row of runStatement
    thrown,      \* exception in flight while the finally block runs
    wr,          \* frame of write(): sink, chunk index, payload, caller
    pend,        \* per sink: a callback given to out.write may still run
    \* ---- observation (history) variables
    delivered,   \* lines the medium has emitted, in order
    returned,    \* lines the race handed to start(), in order
    prepared,    \* line ids submitted to db.prepare, in order
    prepareOk,   \* ids whose prepare succeeded
    finalizeCnt, \* per id: number of stmt.finalize calls
    exitPath,    \* per id: how the row loop was left
    rowsAtExit,  \* per id: rows the engine had delivered when the loop was left
    outLog,      \* chunks written to this.output
    errLog,      \* chunks written to this.conout by the catch blocks
    closeCnt,    \* number of db.close calls
    lastRead,    \* what the latest nextLine() did: "buffer", "resume", "prompt"
    fires,       \* number of SIGINT events
    sinkErrors,  \* number of write callbacks that reported an error
    caught,      \* number of exceptions caught by the two catch blocks
    eoiSeen,     \* a nextLine() promise has been resolved with null
    outStalled,  \* some write to this.output returned false
    idleFires,   \* SIGINT events that arrived while no statement was in flight
    fireLog      \* every interrupt() call: its reason and where the program was

vars == << pc, slots, receiver, raceSlot, buffer, resolver, lineRes, paused,
           closed, terminal, inBatch, line, stmt, getQ, nextRowId, nextRow,
           cursor, row, thrown, wr, pend, delivered, returned,
           prepared, prepareOk, finalizeCnt, exitPath, rowsAtExit, outLog,
           errLog, closeCnt, lastRead, fires, sinkErrors, caught,
           eoiSeen, outStalled, idleFires, fireLog >>

Ids == 1..MaxLines

\* ------------------------------------------------------------ line items
Pending == [kind |-> "pending", id |-> 0, text |-> <<>>]
EOI == [kind |-> "eoi", id |-> 0, text |-> <<>>]
LineItem(i, t) == [kind |-> "line", id |-> i, text |-> t]

IsSpace(c) == c = " "

RECURSIVE TrimLeft(_)
TrimLeft(s) ==
    IF s = <<>> THEN <<>>
    ELSE IF IsSpace(Head(s)) THEN TrimLeft(Tail(s)) ELSE s

RECURSIVE TrimRight(_)
TrimRight(s) ==
    IF s = <<>> THEN <<>>
    ELSE IF IsSpace(s[Len(s)]) THEN TrimRight(SubSeq(s, 1, Len(s) - 1)) ELSE s

Trim(s) == TrimRight(TrimLeft(s))

IsBlankNoTrim(t) == t = <<>>
IsBlank(t) == Trim(t) = <<>>

\* The lines of the medium that hold statement text.
HasText(t) == \E i \in DOMAIN t : t[i] # " "
StmtsDelivered == Cardinality({ i \in DOMAIN delivered : HasText(delivered[i].text) })

\* ------------------------------------------------------------ interrupter
NoResult == [kind |-> "pending", n |-> 0]

NewChannel(sl) == Append(sl, [state |-> "pending", reason |-> "none"])

Reject(sl, i, reason) ==
    IF sl[i].state = "pending"
    THEN [sl EXCEPT ![i] = [state |-> "rejected", reason |-> reason]]
    ELSE sl

\* An interrupter whose reject is a variable shared by all channels:
\* newChannel() overwrites it before interrupt() uses it.
InterruptSlotsSharedReject(sl, rc, reason) ==
    Reject(NewChannel(sl), Len(sl) + 1, reason)

\* interrupter.interrupt(reason): newChannel() and then reject(reason) of the
\* promise that was the receiver when the function was installed.
InterruptSlots(sl, rc, reason) == Reject(NewChannel(sl), rc, reason)
InterruptReceiver(sl, rc) == Len(sl) + 1

Rejected(i) == slots[i].state = "rejected"

\* ------------------------------------------------------------ scheduling
LineSettled == lineRes.kind # "pending"
RowSettled == nextRow.kind # "pending"

Runnable ==
    \/ pc \in {"ready", "writing"}
    \/ pc = "reading" /\ (LineSettled \/ Rejected(raceSlot))
    \/ pc = "rowrace" /\ (RowSettled \/ Rejected(raceSlot))

Quiescent == ~Runnable

Live == pc \notin {"done", "rejected"}

\* start() is in its loop and no runStatement() invocation is in progress.
Idle ==
    \/ pc \in {"ready", "reading"}
    \/ pc \in {"writing", "draining"} /\ wr.sink = "err"

\* Where runStatement() is suspended: awaiting the race of a row fetch, or
\* inside write() for a row.
AtFetch == stmt # 0 /\ pc = "rowrace"
AtWrite == stmt # 0 /\ pc \in {"writing", "draining"} /\ wr.sink = "out"

\* The record kept of an interrupt() call made now.
Fire(reason, sink) ==
    [reason |-> reason,
     sink |-> sink,
     at |-> IF AtFetch THEN "fetch" ELSE IF AtWrite THEN "write"
            ELSE IF Idle THEN "idle" ELSE "other",
     s |-> stmt]

NoWrite == [sink |-> "out", chunk |-> 1, ret |-> "ready", site |-> "none",
            s |-> 0, r |-> 0, e |-> "none"]

Init ==
    /\ pc = "opening"
    /\ slots = NewChannel(<<>>)
    /\ receiver = 1
    /\ raceSlot = 1
    /\ buffer = <<>>
    /\ resolver = "push"
    /\ lineRes = Pending
    /\ paused = FALSE
    /\ closed = FALSE
    /\ terminal \in BOOLEAN
    /\ inBatch = FALSE
    /\ line = 0
    /\ stmt = 0
    /\ getQ = <<>>
    /\ nextRowId = 0
    /\ nextRow = NoResult
    /\ cursor = 0
    /\ row = 0
    /\ thrown = "none"
    /\ wr = NoWrite
    /\ pend = [s \in {"out", "err"} |-> FALSE]
    /\ delivered = <<>>
    /\ returned = <<>>
    /\ prepared = <<>>
    /\ prepareOk = {}
    /\ finalizeCnt = [i \in Ids |-> 0]
    /\ exitPath = [i \in Ids |-> "none"]
    /\ rowsAtExit = [i \in Ids |-> 0]
    /\ outLog = <<>>
    /\ errLog = <<>>
    /\ closeCnt = 0
    /\ lastRead = "none"
    /\ fires = 0
    /\ sinkErrors = 0
    /\ caught = 0
    /\ eoiSeen = FALSE
    /\ outStalled = FALSE
    /\ idleFires = 0
    /\ fireLog = <<>>

\* ----------------------------------------------------- groups of variables
intVars == << slots, receiver >>
srcVars == << buffer, resolver, lineRes, paused, closed, terminal >>
runVars == << stmt, getQ, nextRowId, nextRow, cursor, row, thrown >>
srcHist == << delivered, returned, lastRead, eoiSeen >>
runHist == << prepared, prepareOk, finalizeCnt, exitPath, rowsAtExit >>
logVars == << outLog, errLog, outStalled >>

\* ------------------------------------------------------------------ write
\* The catch blocks of start(): write(this.conout, [inspect(err), "\n"], cb).
ReportError(site, reason) ==
    /\ wr' = [sink |-> "err", chunk |-> 1, ret |-> "ready", site |-> site,
              s |-> 0, r |-> 0, e |-> reason]
    /\ pc' = "writing"
    /\ caught' = caught + 1

\* What the chunk being written adds to the log of its sink.
ChunkOf(w) ==
    IF w.chunk = 1 THEN [s |-> w.s, r |-> w.r, e |-> w.e]
    ELSE [s |-> w.s, r |-> 0, e |-> "\n"]

\* The for loop of write() after a chunk was accepted or "drain" arrived:
\* next chunk, or return to the caller of write().  The caller in
\* runStatement goes straight into the next Promise.race, which reads
\* interrupter.receiver at that moment.
WriteAdvance ==
    IF wr.chunk = 2
    THEN /\ pc' = wr.ret
         /\ raceSlot' = receiver
         /\ wr' = NoWrite
    ELSE /\ pc' = "writing"
         /\ wr' = [wr EXCEPT !.chunk = 2]
         /\ UNCHANGED raceSlot

\* out.write(chunk, callback) and the test of its result.
WriteChunk(ok) ==
    /\ pc = "writing"
    /\ pend' = [pend EXCEPT ![wr.sink] = TRUE]
    /\ IF wr.sink = "out"
       THEN /\ outLog' = Append(outLog, ChunkOf(wr))
            /\ outStalled' = (outStalled \/ ~ok)
            /\ UNCHANGED errLog
       ELSE /\ errLog' = Append(errLog, ChunkOf(wr))
            /\ UNCHANGED << outLog, outStalled >>
    /\ IF ok
       THEN WriteAdvance
       ELSE /\ pc' = "draining"
            /\ UNCHANGED << wr, raceSlot >>
    /\ inBatch' = FALSE
    /\ UNCHANGED << idleFires, fireLog >>
    /\ UNCHANGED << intVars, srcVars, line, runVars, srcHist, runHist,
                    closeCnt, fires, sinkErrors, caught >>

\* A writer that sends the refused chunk again once "drain" arrives.
DrainResend ==
    /\ pc = "draining"
    /\ pend' = [pend EXCEPT ![wr.sink] = FALSE]
    /\ pc' = "writing"
    /\ inBatch' = FALSE
    /\ UNCHANGED << intVars, raceSlot, srcVars, line, runVars, wr, srcHist,
                    runHist, logVars, closeCnt, fires, sinkErrors, caught,
                    idleFires, fireLog >>

\* The sink emits "drain", after the callbacks of the chunks it flushed:
\* the promise awaited by write() resolves.
Drain ==
    /\ pc = "draining"
    /\ pend' = [pend EXCEPT ![wr.sink] = FALSE]
    /\ WriteAdvance
    /\ inBatch' = FALSE
    /\ UNCHANGED << idleFires, fireLog >>
    /\ UNCHANGED << intVars, srcVars, line, runVars, srcHist, runHist,
                    logVars, closeCnt, fires, sinkErrors, caught >>

\* A callback given to out.write runs with an error:
\* (err) => { if (err) this.interrupter.interrupt(err) }.
\* (A callback that runs without error changes nothing.)
WriteCbError(sink) ==
    /\ Live /\ Quiescent
    /\ pend[sink]
    /\ sinkErrors < MaxSinkErrors
    /\ slots' = InterruptSlots(slots, receiver, "EIO")
    /\ receiver' = InterruptReceiver(slots, receiver)
    /\ sinkErrors' = sinkErrors + 1
    /\ fireLog' = Append(fireLog, Fire("EIO", sink))
    /\ inBatch' = FALSE
    /\ UNCHANGED idleFires
    /\ UNCHANGED << pc, raceSlot, srcVars, line, runVars, wr, pend,
                    srcHist, runHist, logVars, closeCnt, fires, caught >>

\* ------------------------------------------------------------ line source
\* handler(line) of createReadlineAsyncIterator, for a "line" event.
LineEvent(t) ==
    /\ Live /\ ~closed
    /\ Len(delivered) < MaxLines
    /\ HasText(t) => StmtsDelivered < MaxStmts
    /\ (~paused /\ Quiescent) \/ inBatch
    /\ LET item == LineItem(Len(delivered) + 1, t) IN
       /\ delivered' = Append(delivered, item)
       /\ IF resolver = "resolve"
          THEN lineRes' = item /\ UNCHANGED buffer
          ELSE buffer' = Append(buffer, item) /\ UNCHANGED lineRes
    /\ paused' = TRUE
    /\ resolver' = "push"
    /\ inBatch' = TRUE
    /\ UNCHANGED << idleFires, fireLog >>
    /\ UNCHANGED << pc, intVars, raceSlot, closed, terminal, line, runVars,
                    wr, pend, returned, lastRead, eoiSeen,
                    runHist, logVars, closeCnt, fires, sinkErrors, caught >>

\* handler(undefined) of createReadlineAsyncIterator, for the "close" event.
CloseEvent ==
    /\ Live /\ ~closed
    /\ (~paused /\ Quiescent) \/ inBatch
    /\ closed' = TRUE
    /\ IF resolver = "resolve"
       THEN lineRes' = EOI /\ eoiSeen' = TRUE /\ UNCHANGED buffer
       ELSE buffer' = Append(buffer, EOI) /\ UNCHANGED << lineRes, eoiSeen >>
    /\ paused' = TRUE
    /\ resolver' = "push"
    /\ inBatch' = TRUE
    /\ UNCHANGED << idleFires, fireLog >>
    /\ UNCHANGED << pc, intVars, raceSlot, terminal, line, runVars, wr,
                    pend, delivered, returned, lastRead, runHist,
                    logVars, closeCnt, fires, sinkErrors, caught >>

\* handleSigInt: this.interrupter.interrupt(new Error("interrupted")).
SigInt ==
    /\ Live
    /\ fires < MaxInterrupts
    /\ Quiescent \/ inBatch
    /\ slots' = InterruptSlots(slots, receiver, "interrupted")
    /\ receiver' = InterruptReceiver(slots, receiver)
    /\ fires' = fires + 1
    /\ idleFires' = IF Idle THEN idleFires + 1 ELSE idleFires
    /\ fireLog' = Append(fireLog, Fire("interrupted", "none"))
    /\ inBatch' = (inBatch \/ (~paused /\ ~closed))
    /\ UNCHANGED << pc, raceSlot, srcVars, line, runVars, wr, pend,
                    srcHist, runHist, logVars, closeCnt, sinkErrors, caught >>

\* ------------------------------------------------------------------ start
\* new sqlite3.Database(dbfile, callback): the callback runs.
OpenCb(ok) ==
    /\ pc = "opening"
    /\ pc' = IF ok THEN "ready" ELSE "rejected"
    /\ inBatch' = FALSE
    /\ UNCHANGED << idleFires, fireLog >>
    /\ UNCHANGED << intVars, raceSlot, srcVars, line, runVars, wr, pend,
                    srcHist, runHist, logVars, closeCnt, fires, sinkErrors,
                    caught >>

\* A nextLine() that prompts before it looks at the buffer.
LoopReadPromptFirst ==
    /\ pc = "ready"
    /\ pc' = "reading"
    /\ raceSlot' = receiver
    /\ lastRead' = IF terminal THEN "prompt"
                   ELSE IF buffer # <<>> THEN "buffer" ELSE "resume"
    /\ IF buffer # <<>>
       THEN /\ lineRes' = Head(buffer)
            /\ buffer' = Tail(buffer)
            /\ eoiSeen' = (eoiSeen \/ Head(buffer).kind = "eoi")
            /\ UNCHANGED << resolver, paused >>
       ELSE /\ lineRes' = Pending
            /\ paused' = FALSE
            /\ resolver' = "resolve"
            /\ UNCHANGED << buffer, eoiSeen >>
    /\ inBatch' = FALSE
    /\ UNCHANGED << intVars, closed, terminal, line, runVars, wr, pend,
                    delivered, returned, runHist, logVars, closeCnt, fires,
                    sinkErrors, caught, idleFires, fireLog >>

\* Top of the while loop: Promise.race([this.nextLine(), receiver]), with
\* this.nextLine() -> rlAsyncIterator.next() -> nextLine() run up to the
\* await.  A buffered item resolves the promise at once; otherwise the
\* promise's resolve function becomes the resolver.
LoopRead ==
    /\ pc = "ready"
    /\ pc' = "reading"
    /\ raceSlot' = receiver
    /\ IF buffer # <<>>
       THEN /\ lineRes' = Head(buffer)
            /\ buffer' = Tail(buffer)
            /\ eoiSeen' = (eoiSeen \/ Head(buffer).kind = "eoi")
            /\ lastRead' = "buffer"
            /\ UNCHANGED << resolver, paused >>
       ELSE /\ lineRes' = Pending
            /\ lastRead' = IF terminal THEN "prompt" ELSE "resume"
            /\ paused' = FALSE
            /\ resolver' = "resolve"
            /\ UNCHANGED << buffer, eoiSeen >>
    /\ inBatch' = FALSE
    /\ UNCHANGED << idleFires, fireLog >>
    /\ UNCHANGED << intVars, closed, terminal, line, runVars, wr, pend,
                    delivered, returned, runHist, logVars, closeCnt, fires,
                    sinkErrors, caught >>

\* A loop without the outer catch: the rejection leaves the while loop and
\* the finally block closes the database.
LoopReadInterruptedEscapes ==
    /\ pc = "reading"
    /\ Rejected(raceSlot)
    /\ closeCnt' = closeCnt + 1
    /\ pc' = "closing"
    /\ inBatch' = FALSE
    /\ UNCHANGED << intVars, raceSlot, srcVars, line, runVars, wr, pend,
                    srcHist, runHist, logVars, fires, sinkErrors, caught,
                    idleFires, fireLog >>

\* The race rejects: the receiver it captured was fired.  Outer catch.
LoopReadInterrupted ==
    /\ pc = "reading"
    /\ Rejected(raceSlot)
    /\ ReportError("outer", slots[raceSlot].reason)
    /\ inBatch' = FALSE
    /\ UNCHANGED << idleFires, fireLog >>
    /\ UNCHANGED << intVars, raceSlot, srcVars, line, runVars, pend,
                    srcHist, runHist, logVars, closeCnt, fires, sinkErrors >>

\* The race yields null: break, and the finally block calls db.close.
LoopGotEOI ==
    /\ pc = "reading"
    /\ ~Rejected(raceSlot)
    /\ lineRes.kind = "eoi"
    /\ returned' = Append(returned, 0)
    /\ lineRes' = Pending
    /\ lastRead' = "none"
    /\ closeCnt' = closeCnt + 1
    /\ pc' = "closing"
    /\ inBatch' = FALSE
    /\ UNCHANGED << idleFires, fireLog >>
    /\ UNCHANGED << intVars, raceSlot, buffer, resolver, paused, closed,
                    terminal, line, runVars, wr, pend, delivered, eoiSeen,
                    runHist, logVars, fires, sinkErrors, caught >>

\* The race yields a line with line.trim() == "": continue.
LoopGotBlank ==
    /\ pc = "reading"
    /\ ~Rejected(raceSlot)
    /\ lineRes.kind = "line"
    /\ IsBlank(lineRes.text)
    /\ returned' = Append(returned, lineRes.id)
    /\ lineRes' = Pending
    /\ lastRead' = "none"
    /\ pc' = "ready"
    /\ inBatch' = FALSE
    /\ UNCHANGED << idleFires, fireLog >>
    /\ UNCHANGED << intVars, raceSlot, buffer, resolver, paused, closed,
                    terminal, line, runVars, wr, pend, delivered, eoiSeen,
                    runHist, logVars, closeCnt, fires, sinkErrors, caught >>

\* The race yields a statement: runStatement(db, line) calls db.prepare.
LoopGotStatement ==
    /\ pc = "reading"
    /\ ~Rejected(raceSlot)
    /\ lineRes.kind = "line"
    /\ ~IsBlank(lineRes.text)
    /\ line' = lineRes.id
    /\ returned' = Append(returned, lineRes.id)
    /\ lineRes' = Pending
    /\ lastRead' = "none"
    /\ prepared' = Append(prepared, lineRes.id)
    /\ pc' = "preparing"
    /\ inBatch' = FALSE
    /\ UNCHANGED << idleFires, fireLog >>
    /\ UNCHANGED << intVars, raceSlot, buffer, resolver, paused, closed,
                    terminal, runVars, wr, pend, delivered, eoiSeen,
                    prepareOk,
                    finalizeCnt, exitPath, rowsAtExit, logVars, closeCnt,
                    fires, sinkErrors, caught >>

\* db.close(callback): the callback runs and start() settles.
CloseCb(ok) ==
    /\ pc = "closing"
    /\ pc' = IF ok THEN "done" ELSE "rejected"
    /\ inBatch' = FALSE
    /\ UNCHANGED << idleFires, fireLog >>
    /\ UNCHANGED << intVars, raceSlot, srcVars, line, runVars, wr, pend,
                    srcHist, runHist, logVars, closeCnt, fires, sinkErrors,
                    caught >>

\* ----------------------------------------------------------- runStatement
\* A getRow() that calls stmt.get twice and keeps the first result.
GetRowTwice(q, id) == Append(Append(q, id + 1), 0)

\* getRow(): one more stmt.get whose result settles a new promise.
GetRowQ(q, id) == Append(q, id + 1)

\* A runner that never calls stmt.finalize.
FinalizeNever(cnt, id) == cnt

\* A runner that finalizes both on the error path and in the finally block.
FinalizeTwice(cnt, id) == [cnt EXCEPT ![id] = @ + 2]

\* The finally block: stmt.finalize(callback).
Finalize(cnt, id) == [cnt EXCEPT ![id] = @ + 1]

\* A runner whose try block encloses db.prepare: a failed prepare reaches the
\* finally block.
PrepareCbInsideTry(ok) ==
    /\ pc = "preparing"
    /\ IF ok
       THEN /\ stmt' = line
            /\ prepareOk' = prepareOk \cup {line}
            /\ getQ' = GetRowQ(getQ, nextRowId)
            /\ nextRowId' = nextRowId + 1
            /\ raceSlot' = receiver
            /\ pc' = "rowrace"
            /\ UNCHANGED << thrown, finalizeCnt >>
       ELSE /\ finalizeCnt' = Finalize(finalizeCnt, line)
            /\ thrown' = "PrepareError"
            /\ pc' = "finalizing"
            /\ UNCHANGED << stmt, prepareOk, getQ, nextRowId, raceSlot >>
    /\ nextRow' = NoResult
    /\ cursor' = 0
    /\ inBatch' = FALSE
    /\ UNCHANGED << intVars, srcVars, line, row, wr, caught, pend, srcHist,
                    prepared, exitPath, rowsAtExit, logVars, closeCnt,
                    fires, sinkErrors, idleFires, fireLog >>

\* db.prepare's callback runs.  Success: nextRow = getRow() and the first
\* race.  Failure: runStatement rejects, inner catch.
PrepareCb(ok) ==
    /\ pc = "preparing"
    /\ IF ok
       THEN /\ stmt' = line
            /\ prepareOk' = prepareOk \cup {line}
            /\ getQ' = GetRowQ(getQ, nextRowId)
            /\ nextRowId' = nextRowId + 1
            /\ nextRow' = NoResult
            /\ cursor' = 0
            /\ raceSlot' = receiver
            /\ pc' = "rowrace"
            /\ UNCHANGED << wr, caught >>
       ELSE /\ ReportError("inner", "PrepareError")
            /\ UNCHANGED << stmt, prepareOk, getQ, nextRowId, nextRow,
                            cursor, raceSlot >>
    /\ inBatch' = FALSE
    /\ UNCHANGED << idleFires, fireLog >>
    /\ UNCHANGED << intVars, srcVars, line, row, thrown, pend, srcHist,
                    prepared, finalizeCnt, exitPath, rowsAtExit, logVars,
                    closeCnt, fires, sinkErrors >>

\* A stmt.get callback that writes a row itself when runStatement has
\* stopped waiting for it.
GetCbWritesLate(kind) ==
    /\ Live /\ Quiescent
    /\ getQ # <<>>
    /\ kind = "row" => cursor < MaxRows
    /\ cursor' = IF kind = "row" THEN cursor + 1 ELSE cursor
    /\ getQ' = Tail(getQ)
    /\ nextRow' = IF Head(getQ) = nextRowId
                  THEN [kind |-> kind,
                        n |-> IF kind = "row" THEN cursor + 1 ELSE 0]
                  ELSE nextRow
    /\ outLog' = IF kind = "row" /\ pc = "finalizing"
                 THEN outLog \o << [s |-> stmt, r |-> cursor + 1, e |-> "none"],
                                   [s |-> stmt, r |-> 0, e |-> "\n"] >>
                 ELSE outLog
    /\ inBatch' = FALSE
    /\ UNCHANGED << pc, intVars, raceSlot, srcVars, line, stmt, nextRowId,
                    row, thrown, wr, pend, srcHist, runHist, errLog,
                    outStalled, closeCnt, fires, sinkErrors, caught,
                    idleFires, fireLog >>

\* stmt.get's callback runs for the oldest outstanding call: a row, the end
\* of the cursor (row undefined) or an error.
GetCb(kind) ==
    /\ Live /\ Quiescent
    /\ getQ # <<>>
    /\ kind = "row" => cursor < MaxRows
    /\ cursor' = IF kind = "row" THEN cursor + 1 ELSE cursor
    /\ getQ' = Tail(getQ)
    /\ nextRow' = IF Head(getQ) = nextRowId
                  THEN [kind |-> kind,
                        n |-> IF kind = "row" THEN cursor + 1 ELSE 0]
                  ELSE nextRow
    /\ inBatch' = FALSE
    /\ UNCHANGED << idleFires, fireLog >>
    /\ UNCHANGED << pc, intVars, raceSlot, srcVars, line, stmt, nextRowId,
                    row, thrown, wr, pend, srcHist, runHist, logVars,
                    closeCnt, fires, sinkErrors, caught >>

\* A runner that finalizes after the loop instead of in a finally block.
LeaveRowLoopNoFinally(path, exc) ==
    /\ finalizeCnt' = IF exc = "none" THEN Finalize(finalizeCnt, stmt)
                      ELSE finalizeCnt
    /\ exitPath' = [exitPath EXCEPT ![stmt] = path]
    /\ rowsAtExit' = [rowsAtExit EXCEPT ![stmt] = cursor]
    /\ thrown' = exc
    /\ pc' = "finalizing"

\* Leaving the try block of runStatement, whatever the cause.
LeaveRowLoop(path, exc) ==
    /\ finalizeCnt' = Finalize(finalizeCnt, stmt)
    /\ exitPath' = [exitPath EXCEPT ![stmt] = path]
    /\ rowsAtExit' = [rowsAtExit EXCEPT ![stmt] = cursor]
    /\ thrown' = exc
    /\ pc' = "finalizing"

\* The race yields a row: prefetch the next one and write this one.
RowArrived ==
    /\ pc = "rowrace"
    /\ nextRow.kind = "row"
    /\ row' = nextRow.n
    /\ getQ' = GetRowQ(getQ, nextRowId)
    /\ nextRowId' = nextRowId + 1
    /\ nextRow' = NoResult
    /\ wr' = [sink |-> "out", chunk |-> 1, ret |-> "rowrace",
              site |-> "row", s |-> stmt, r |-> nextRow.n, e |-> "none"]
    /\ pc' = "writing"
    /\ inBatch' = FALSE
    /\ UNCHANGED << idleFires, fireLog >>
    /\ UNCHANGED << intVars, raceSlot, srcVars, line, stmt, cursor, thrown,
                    pend, srcHist, runHist, logVars, closeCnt, fires,
                    sinkErrors, caught >>

\* The race yields undefined: the while condition is false.
RowEnd ==
    /\ pc = "rowrace"
    /\ nextRow.kind = "end"
    /\ LeaveRowLoop("end", "none")
    /\ inBatch' = FALSE
    /\ UNCHANGED << idleFires, fireLog >>
    /\ UNCHANGED << intVars, raceSlot, srcVars, line, stmt, getQ, nextRowId,
                    nextRow, cursor, row, wr, pend, srcHist, prepared,
                    prepareOk, logVars, closeCnt, fires, sinkErrors, caught >>

\* The race rejects with the error of stmt.get.
RowError ==
    /\ pc = "rowrace"
    /\ nextRow.kind = "err"
    /\ LeaveRowLoop("error", "QueryError")
    /\ inBatch' = FALSE
    /\ UNCHANGED << idleFires, fireLog >>
    /\ UNCHANGED << intVars, raceSlot, srcVars, line, stmt, getQ, nextRowId,
                    nextRow, cursor, row, wr, pend, srcHist, prepared,
                    prepareOk, logVars, closeCnt, fires, sinkErrors, caught >>

\* A runner that asks for one more row when it is interrupted.
RowInterruptedRefetch ==
    /\ pc = "rowrace"
    /\ nextRow.kind = "pending"
    /\ Rejected(raceSlot)
    /\ getQ' = GetRowQ(getQ, nextRowId)
    /\ nextRowId' = nextRowId + 1
    /\ LeaveRowLoop("interrupt", slots[raceSlot].reason)
    /\ inBatch' = FALSE
    /\ UNCHANGED << intVars, raceSlot, srcVars, line, stmt, nextRow, cursor,
                    row, wr, pend, srcHist, prepared, prepareOk, logVars,
                    closeCnt, fires, sinkErrors, caught, idleFires, fireLog >>

\* The race rejects because the captured receiver was fired.
RowInterrupted ==
    /\ pc = "rowrace"
    /\ nextRow.kind = "pending"
    /\ Rejected(raceSlot)
    /\ LeaveRowLoop("interrupt", slots[raceSlot].reason)
    /\ inBatch' = FALSE
    /\ UNCHANGED << idleFires, fireLog >>
    /\ UNCHANGED << intVars, raceSlot, srcVars, line, stmt, getQ, nextRowId,
                    nextRow, cursor, row, wr, pend, srcHist, prepared,
                    prepareOk, logVars, closeCnt, fires, sinkErrors, caught >>

\* stmt.finalize's callback runs (after the callbacks of the calls queued
\* before it).  An error here replaces the exception in flight.
FinalizeCb(ok) ==
    /\ pc = "finalizing"
    /\ getQ = <<>>
    /\ IF ok /\ thrown = "none"
       THEN pc' = "ready" /\ UNCHANGED << wr, caught >>
       ELSE ReportError("inner", IF ok THEN thrown ELSE "FinalizeError")
    /\ thrown' = "none"
    /\ stmt' = 0
    /\ nextRowId' = 0
    /\ nextRow' = NoResult
    /\ cursor' = 0
    /\ row' = 0
    /\ inBatch' = FALSE
    /\ UNCHANGED << idleFires, fireLog >>
    /\ UNCHANGED << intVars, raceSlot, srcVars, line, getQ, pend, srcHist,
                    runHist, logVars, closeCnt, fires, sinkErrors >>

\* ------------------------------------------------------------------- Next
Next ==
    \/ \E ok \in BOOLEAN : OpenCb(ok)
    \/ LoopRead
    \/ LoopReadInterrupted
    \/ LoopGotEOI
    \/ LoopGotBlank
    \/ LoopGotStatement
    \/ \E ok \in BOOLEAN : CloseCb(ok)
    \/ \E ok \in BOOLEAN : PrepareCb(ok)
    \/ \E k \in {"row", "end", "err"} : GetCb(k)
    \/ RowArrived
    \/ RowEnd
    \/ RowError
    \/ RowInterrupted
    \/ \E ok \in BOOLEAN : FinalizeCb(ok)
    \/ \E ok \in BOOLEAN : WriteChunk(ok)
    \/ Drain
    \/ \E sink \in {"out", "err"} : WriteCbError(sink)
    \/ \E t \in LineTexts : LineEvent(t)
    \/ CloseEvent
    \/ SigInt

Spec == Init /\ [][Next]_vars

\* The promise jobs of start(), runStatement() and write() always run.
LoopStep ==
    \/ LoopRead
    \/ LoopReadInterrupted
    \/ LoopGotEOI
    \/ LoopGotBlank
    \/ LoopGotStatement
    \/ RowArrived
    \/ RowEnd
    \/ RowError
    \/ RowInterrupted
    \/ \E ok \in BOOLEAN : WriteChunk(ok)

\* sqlite3 calls back every operation it was given, and a sink that
\* refused a chunk emits "drain".
Callbacks ==
    \/ \E ok \in BOOLEAN : OpenCb(ok)
    \/ \E ok \in BOOLEAN : PrepareCb(ok)
    \/ \E k \in {"row", "end", "err"} : GetCb(k)
    \/ \E ok \in BOOLEAN : FinalizeCb(ok)
    \/ \E ok \in BOOLEAN : CloseCb(ok)
    \/ Drain

FairSpec == Spec /\ WF_vars(LoopStep) /\ WF_vars(Callbacks)

TypeOK ==
    /\ pc \in {"opening", "ready", "reading", "preparing", "rowrace",
               "writing", "draining", "finalizing", "closing", "done",
               "rejected"}
    /\ receiver = Len(slots)
    /\ raceSlot \in 1..Len(slots)
    /\ resolver \in {"push", "resolve"}
    /\ Len(getQ) <= 1
    /\ line \in 0..MaxLines
    /\ pc = "rowrace" => ~(RowSettled /\ Rejected(raceSlot))
    /\ stmt # 0 => stmt \in prepareOk

\* ------------------------------------------------------------ observation
RECURSIVE RowChunks(_, _)
\* The chunks of n record lines of statement i, rows 1..n in order.
RowChunks(i, n) ==
    IF n = 0 THEN <<>>
    ELSE RowChunks(i, n - 1) \o << [s |-> i, r |-> n, e |-> "none"],
                                   [s |-> i, r |-> 0, e |-> "\n"] >>

IsOf(i, c) == c.s = i
\* What statement i has written to the output sink.
OutOf(i) == SelectSeq(outLog, LAMBDA c : IsOf(i, c))

\* Position in returned of line i.
PosOf(i) == CHOOSE k \in DOMAIN returned : returned[k] = i

Returned(i) == \E k \in DOMAIN returned : returned[k] = i

\* ----------------------------------------------------------------- claims

\* C1: for every runStatement invocation whose prepare succeeded, finalize
\* is issued exactly once before the invocation returns, whether the row
\* loop was left by cursor exhaustion, by a row error or by an interrupt:
\* never before the loop is left, once while the finalize callback is
\* awaited, and exactly once in total after the invocation has returned.
C1_FinalizeExactlyOnce ==
    \A i \in Ids :
        /\ finalizeCnt[i] <= 1
        /\ i \notin prepareOk => finalizeCnt[i] = 0
        /\ (stmt = i /\ pc # "finalizing") => finalizeCnt[i] = 0
        /\ (stmt = i /\ pc = "finalizing") => finalizeCnt[i] = 1
        /\ (i \in prepareOk /\ stmt # i) =>
              /\ finalizeCnt[i] = 1
              /\ exitPath[i] \in {"end", "error", "interrupt"}

\* C1 witness: an invocation interrupted after at least one row has
\* returned, finalized once, and the loop is reading again.
C1_Witness ==
    \E i \in Ids :
        /\ exitPath[i] = "interrupt" /\ rowsAtExit[i] >= 1
        /\ stmt = 0 /\ finalizeCnt[i] = 1 /\ pc = "reading"

\* C2: a statement whose cursor is exhausted after N rows, with no interrupt
\* and no sink error in the session, has written exactly N record lines to
\* the output sink, rows 1..N in the engine's order, whatever writes
\* returned "not ready".
C2_AllRowsWrittenInOrder ==
    \A i \in Ids :
        (exitPath[i] = "end" /\ fires = 0 /\ sinkErrors = 0) =>
            OutOf(i) = RowChunks(i, rowsAtExit[i])

\* C2 witness: a statement of two rows ended normally although a write to
\* the output sink had returned false.
C2_Witness ==
    \E i \in Ids :
        /\ exitPath[i] = "end" /\ rowsAtExit[i] >= 2 /\ stmt = 0
        /\ outStalled /\ fires = 0 /\ sinkErrors = 0

\* C3: a statement interrupted after the engine delivered k rows has written
\* exactly k record lines, is finalized exactly once, and once it has
\* returned the loop is reporting the interruption, is back at Ready or
\* Reading, or has already accepted further input.
C3_InterruptedStatement ==
    \A i \in Ids :
        exitPath[i] = "interrupt" =>
            /\ OutOf(i) = RowChunks(i, rowsAtExit[i])
            /\ finalizeCnt[i] = 1
            /\ stmt # i =>
                  \/ pc \in {"writing", "draining"} /\ wr.sink = "err"
                  \/ pc \in {"ready", "reading"}
                  \/ Len(returned) > PosOf(i)

\* C3 witness: after a statement interrupted past its first row, the loop
\* has taken another line.
C3_Witness ==
    \E i \in Ids :
        /\ exitPath[i] = "interrupt" /\ rowsAtExit[i] >= 1
        /\ Len(returned) > PosOf(i)
        /\ returned[Len(returned)] # 0

IsNewline(c) == c.e = "\n"
\* Complete diagnostic lines on the error sink.
DiagLines == Len(SelectSeq(errLog, IsNewline))

IsLineId(i) == i # 0
IsLineItem(it) == it.kind = "line"
RECURSIVE IdsOf(_)
IdsOf(items) ==
    IF items = <<>> THEN <<>> ELSE <<Head(items).id>> \o IdsOf(Tail(items))

\* The lines the medium emitted are, in order: those already handed to
\* start(), the one held by the promise the current race awaits, and those
\* still in the buffer.
LinesConserved ==
    IdsOf(delivered) =
        SelectSeq(returned, IsLineId)
        \o (IF pc = "reading" /\ lineRes.kind = "line"
            THEN <<lineRes.id>> ELSE <<>>)
        \o IdsOf(SelectSeq(buffer, IsLineItem))

TextOfId(i) == delivered[i].text
IsStmtId(i) == i # 0 /\ HasText(TextOfId(i))

OuterReport == pc \in {"writing", "draining"} /\ wr.site = "outer"
AnyReport == pc \in {"writing", "draining"} /\ wr.sink = "err"

\* C4: in a session without statements and sink errors, every SIGINT that
\* arrived while the loop was idle has produced its own diagnostic line by
\* the time the loop waits for a line again.
C4_EveryIdleFireReported ==
    (StmtsDelivered = 0 /\ sinkErrors = 0 /\ fires = idleFires
        /\ pc = "reading" /\ Quiescent)
    => DiagLines = idleFires

\* C5: once end-of-input has occurred in a running session, start()
\* eventually completes with the database closed exactly once.
C5_EndOfInputExits ==
    (closed /\ pc \notin {"opening", "rejected"})
        ~> (pc \in {"done", "rejected"} /\ closeCnt = 1)

\* C6: every line the medium emitted reaches start() exactly once and in
\* arrival order, and the statements submitted to prepare are exactly the
\* non-blank lines handed to start(), each once and in order.
C6_NoLineLostOrDuplicated ==
    /\ LinesConserved
    /\ prepared = SelectSeq(returned, IsStmtId)

\* C7: errors never terminate the session.  A failure of prepare, of a row
\* fetch, of finalize, an interruption of the runner or of the raced line
\* read is followed at once by the write of a diagnostic to the error sink;
\* when that write returns the loop is at Ready; db.close is only reached
\* from a line read that yielded end-of-input; and start() settles only from
\* the open or the close callback.
C7_ErrorsNeverTerminate ==
    [][
        /\ (pc = "preparing" /\ pc' \notin {"preparing", "rowrace"})
              => (pc' = "writing" /\ wr'.sink = "err" /\ wr'.e = "PrepareError")
        /\ (pc = "finalizing" /\ pc' # "finalizing"
              /\ (thrown # "none" \/ pc' # "ready"))
              => (pc' = "writing" /\ wr'.sink = "err"
                  /\ wr'.e \in {thrown, "FinalizeError"} /\ wr'.e # "none")
        /\ (pc = "reading" /\ Rejected(raceSlot) /\ pc' # "reading")
              => (pc' = "writing" /\ wr'.sink = "err"
                  /\ wr'.e = slots[raceSlot].reason)
        /\ (pc = "writing" /\ wr.sink = "err" /\ wr.chunk = 1)
              => (Len(errLog') = Len(errLog) + 1
                  /\ errLog'[Len(errLog')].e = wr.e)
        /\ (AnyReport /\ pc' \notin {"writing", "draining"}) => pc' = "ready"
        /\ (pc # "closing" /\ pc' = "closing")
              => (pc = "reading" /\ lineRes.kind = "eoi")
        /\ (pc \notin {"done", "rejected"} /\ pc' \in {"done", "rejected"})
              => pc \in {"opening", "closing"}
    ]_vars

\* C7 witness: a finalize failure has been reported and the loop is waiting
\* for the next line.
C7_Witness ==
    /\ pc = "reading"
    /\ \E k \in DOMAIN errLog : errLog[k].e = "FinalizeError"
    /\ \E k \in DOMAIN errLog : errLog[k].e = "interrupted"

\* C8: while the medium has emitted only blank lines (empty or
\* whitespace-only) and no interrupt was fired, nothing was prepared, nothing
\* was written to either sink, and the loop is reading or has left on
\* end-of-input.
C8_BlankLinesOnly ==
    ((\A k \in DOMAIN delivered : ~HasText(delivered[k].text)) /\ fires = 0)
    => /\ prepared = <<>>
       /\ outLog = <<>>
       /\ errLog = <<>>
       /\ pc \in {"opening", "ready", "reading", "closing", "done", "rejected"}
       /\ pc \in {"closing", "done"} => (closed /\ returned[Len(returned)] = 0)

\* C8 witness: an empty and a whitespace-only line have both been read and
\* skipped.
C8_Witness ==
    /\ Len(delivered) = 2 /\ Len(returned) = 2
    /\ \E k \in DOMAIN delivered : delivered[k].text = <<>>
    /\ \E k \in DOMAIN delivered : delivered[k].text = <<" ">>
    /\ fires = 0 /\ pc = "reading"

\* C9: an interrupt that wins the idle line race is caught once, produces
\* exactly one diagnostic line, prepares nothing and closes nothing while it
\* is reported, and leaves the loop at Ready with every line that has
\* arrived still there to be read and executed.
C9_IdleInterrupt ==
    [][
        /\ (pc = "reading" /\ Rejected(raceSlot) /\ pc' # "reading")
              => (caught' = caught + 1 /\ DiagLines = caught
                  /\ pc' = "writing" /\ wr'.site = "outer")
        /\ OuterReport
              => /\ prepared' = prepared
                 /\ closeCnt' = closeCnt
                 /\ pc' \in {"writing", "draining", "ready"}
                 /\ pc' = "ready" => (DiagLines' = caught' /\ LinesConserved')
    ]_vars

\* C10: once a nextLine() promise has been resolved with end-of-input, every
\* later nextLine() call is served end-of-input at once, without prompt,
\* resume or wait.
C10_EndOfInputPermanent ==
    [][
        (eoiSeen /\ pc = "ready" /\ pc' = "reading")
            => (lineRes'.kind = "eoi" /\ lastRead' = "buffer")
    ]_vars

\* C11: when the finalize callback runs while a row error or an interruption
\* is in flight for the statement, the failure raised to start() and written
\* as the diagnostic is that row error or interruption, whether or not
\* finalize itself failed.
C11_OriginalCauseWins ==
    [][
        (pc = "finalizing" /\ thrown # "none" /\ pc' # "finalizing")
            => (pc' = "writing" /\ wr'.sink = "err" /\ wr'.site = "inner"
                /\ wr'.e = thrown)
    ]_vars

\* A SIGINT was fired while statement i was between its prepare and the end
\* of its row loop.
FiredIn(i) ==
    \E k \in DOMAIN fireLog :
        /\ fireLog[k].s = i
        /\ fireLog[k].reason = "interrupted"
        /\ fireLog[k].at \in {"fetch", "write"}

\* C12: a SIGINT fired at any moment between a successful prepare and the
\* exhaustion of the cursor, while the runner awaits a row fetch or while it
\* is inside the write of a row, stops the streaming: from then on a runner
\* that awaits a row which has not arrived yet awaits a race the interrupt
\* has already won, it leaves the row loop by the interruption, and when
\* finalize succeeds the interruption is what start() writes to the error
\* sink.
C12_ResponsiveToCancellation ==
    [][
        /\ (AtFetch /\ FiredIn(stmt) /\ ~RowSettled)
              => /\ Rejected(raceSlot)
                 /\ pc' # "rowrace"
                       => (pc' = "finalizing" /\ exitPath'[stmt] = "interrupt")
        /\ (pc = "finalizing" /\ pc' # "finalizing"
              /\ thrown = "interrupted" /\ wr'.e # "FinalizeError")
              => (pc' = "writing" /\ wr'.sink = "err"
                  /\ wr'.e = "interrupted")
    ]_vars

\* The lines whose db.prepare has called back with an error.
FailedPrepares ==
    { i \in Ids : /\ \E k \in DOMAIN prepared : prepared[k] = i
                  /\ i \notin prepareOk
                  /\ ~(pc = "preparing" /\ line = i) }

IsPrepareDiag(c) == c.e = "PrepareError"
\* Diagnostics of failed prepares on the error sink.
PrepareDiags == Len(SelectSeq(errLog, IsPrepareDiag))

\* C13: a failed prepare acquires nothing: at the failure no fetch is issued,
\* no statement is held, finalize is not called, nothing goes to the output
\* sink, and the write of one diagnostic starts; afterwards the line has
\* never been finalized, has left the row loop by no path and has no output
\* line, the error sink holds exactly one diagnostic per failed prepare, and
\* the loop goes on (db.close only after end-of-input).
C13_PrepareFailure ==
    [][
        /\ (pc = "preparing" /\ pc' \notin {"preparing", "rowrace"})
              => /\ getQ' = <<>> /\ nextRowId' = 0 /\ stmt' = 0
                 /\ finalizeCnt' = finalizeCnt
                 /\ outLog' = outLog
                 /\ caught' = caught + 1
                 /\ pc' = "writing" /\ wr'.sink = "err"
                 /\ wr'.e = "PrepareError"
        /\ \A i \in FailedPrepares :
              /\ finalizeCnt[i] = 0
              /\ exitPath[i] = "none"
              /\ OutOf(i) = <<>>
              /\ stmt # i
              /\ pc \in {"closing", "done", "rejected"}
                    => returned[Len(returned)] = 0
        /\ PrepareDiags =
              IF pc = "writing" /\ wr.e = "PrepareError" /\ wr.chunk = 1
              THEN Cardinality(FailedPrepares) - 1
              ELSE Cardinality(FailedPrepares)
        /\ (pc = "ready" /\ FailedPrepares # {}) => DiagLines = caught
    ]_vars

\* C13 witness: a prepare has failed, its diagnostic line is complete, and
\* the loop is waiting for the next line.
C13_Witness ==
    /\ FailedPrepares # {}
    /\ PrepareDiags = 1 /\ DiagLines = 1
    /\ outLog = <<>>
    /\ pc = "reading" /\ Quiescent

\* A write callback of the output sink reported an error while statement i
\* was between its prepare and the end of its row loop.
SinkErrorIn(i) ==
    \E k \in DOMAIN fireLog :
        /\ fireLog[k].s = i
        /\ fireLog[k].sink = "out"
        /\ fireLog[k].at \in {"fetch", "write"}

\* C14: an error reported by a write callback fires the interrupter, and a
\* runner whose row write failed, whether the callback ran while it awaited
\* the next fetch or while it was still inside write(), pulls no further
\* row: from then on, when it awaits a row that has not arrived yet, it
\* awaits a race the interrupt has already won and leaves the row loop for
\* the finally block.
C14_WriteFailureStopsRunner ==
    [][
        /\ sinkErrors' = sinkErrors + 1
              => /\ receiver' # receiver
                 /\ slots'[receiver] = [state |-> "rejected", reason |-> "EIO"]
        /\ (AtFetch /\ SinkErrorIn(stmt) /\ ~RowSettled)
              => /\ Rejected(raceSlot)
                 /\ pc' # "rowrace"
                       => (pc' = "finalizing" /\ exitPath'[stmt] = "interrupt")
    ]_vars

\* Statement i has written the record lines of rows 1..n in order, the last
\* of them possibly still without its newline.
InOrder(i) ==
    \E n \in 0..Len(outLog) :
        \/ OutOf(i) = RowChunks(i, n)
        \/ n > 0 /\ OutOf(i) = SubSeq(RowChunks(i, n), 1, 2 * n - 1)

\* A step in which runStatement calls getRow().
FetchIssued == nextRowId' = nextRowId + 1

FireStep == Len(fireLog') = Len(fireLog) + 1

\* C16: the interrupter always has exactly one unresolved receiver, the
\* current one, and every earlier receiver has been rejected; a call of
\* interrupt(reason) rejects the receiver current at the call with that
\* reason and installs a fresh pending one in the same step; receivers
\* change in no other step; a receiver is only ever pending or rejected and
\* a rejected one keeps its reason; and the receiver a race captures is
\* pending at the capture, whatever was fired before.
C16_InterruptChannel ==
    [][
        /\ receiver = Len(slots)
        /\ slots[receiver].state = "pending"
        /\ \A k \in 1..(receiver - 1) : slots[k].state = "rejected"
        /\ \A k \in DOMAIN slots :
              /\ slots[k].state \in {"pending", "rejected"}
              /\ slots[k].state = "rejected" => slots'[k] = slots[k]
        /\ FireStep
              => /\ slots'[receiver] =
                       [state |-> "rejected",
                        reason |-> fireLog'[Len(fireLog')].reason]
                 /\ receiver' = receiver + 1
                 /\ Len(slots') = receiver'
                 /\ slots'[receiver'].state = "pending"
        /\ ~FireStep => (slots' = slots /\ receiver' = receiver)
        /\ (pc' \in {"reading", "rowrace"} /\ pc \notin {"reading", "rowrace"})
              => (raceSlot' = receiver' /\ slots'[raceSlot'].state = "pending")
    ]_vars

\* C16 witness: after a SIGINT and a sink error, each of which rejected the
\* receiver current at its time, a race has captured the third receiver and
\* is pending on it.
C16_Witness ==
    /\ Len(slots) = 3
    /\ slots[1].state = "rejected" /\ slots[2].state = "rejected"
    /\ slots[1].reason # slots[2].reason
    /\ pc \in {"reading", "rowrace"} /\ raceSlot = 3 /\ Quiescent

\* No runStatement() invocation is in progress.
NoRunner ==
    /\ stmt = 0 /\ getQ = <<>>
    /\ pc \notin {"preparing", "rowrace", "finalizing"}
    /\ ~AtWrite

\* Every statement whose prepare succeeded has been finalized.
AllFinalized == \A i \in prepareOk : finalizeCnt[i] = 1

\* C17: db.close is called at most once, and exactly once before start()
\* completes a session whose database was opened; it is called only when
\* the loop has been left (the line race yielded end-of-input), while no
\* runStatement invocation is in progress and every successfully prepared
\* statement has been finalized; and once it is called nothing more is
\* prepared, fetched, finalized or written.
C17_CloseOnceAfterLoop ==
    [][
        /\ closeCnt <= 1
        /\ pc \in {"closing", "done"} => closeCnt = 1
        /\ (pc = "rejected" /\ closeCnt = 0) => returned = <<>>
        /\ closeCnt' # closeCnt
              => /\ closeCnt = 0 /\ closeCnt' = 1
                 /\ pc = "reading" /\ lineRes.kind = "eoi"
                 /\ pc' = "closing"
                 /\ NoRunner
                 /\ AllFinalized
        /\ closeCnt = 1
              => /\ pc \in {"closing", "done", "rejected"}
                 /\ prepared' = prepared /\ finalizeCnt' = finalizeCnt
                 /\ getQ' = getQ /\ outLog' = outLog /\ errLog' = errLog
    ]_vars

\* C17 witness: db.close has been called once after a session in which a
\* statement was interrupted and finalized.
C17_Witness ==
    /\ pc = "closing" /\ closeCnt = 1
    /\ \E i \in prepareOk : exitPath[i] = "interrupt" /\ finalizeCnt[i] = 1

\* The callback of a fetch that runStatement has abandoned runs.
LateResult == pc = "finalizing" /\ getQ # <<>> /\ getQ' = Tail(getQ)

\* C18: once the interrupt has won a row-fetch race, the result of the
\* abandoned fetch has no effect: when it arrives nothing is written and
\* neither the position nor the exception in flight changes; the statement
\* never writes another chunk; what the runner raises afterwards is the
\* interruption or a finalize failure, never the late result; and every
\* statement's output consists of its own rows in order.
C18_LateResultDiscarded ==
    [][
        /\ \A i \in Ids :
              exitPath[i] = "interrupt"
                  => (OutOf(i)' = OutOf(i) /\ OutOf(i) = RowChunks(i, rowsAtExit[i]))
        /\ (LateResult /\ exitPath[stmt] = "interrupt")
              => /\ pc' = "finalizing"
                 /\ outLog' = outLog /\ errLog' = errLog
                 /\ thrown' = thrown /\ wr' = wr
                 /\ returned' = returned /\ prepared' = prepared
        /\ (pc = "finalizing" /\ exitPath[stmt] = "interrupt"
              /\ pc' # "finalizing")
              => (stmt' = 0 /\ nextRow' = NoResult /\ getQ' = <<>>
                  /\ wr'.e \in {thrown, "FinalizeError"})
        /\ \A i \in Ids : InOrder(i)
    ]_vars

\* C18 witness: a statement was interrupted while a fetch was outstanding
\* and the abandoned fetch has since delivered a row.
C18_Witness ==
    /\ pc = "finalizing" /\ exitPath[stmt] = "interrupt"
    /\ getQ = <<>> /\ nextRow.kind = "row"
    /\ cursor = rowsAtExit[stmt] + 1

\* A step in which start() calls this.nextLine().
NextLineCalled == pc = "ready" /\ pc' = "reading"

\* C19: with a terminal, a nextLine() request that finds the buffer empty
\* prompts once, in the step in which it starts to wait, and a request
\* served from the buffer (a line or end-of-input) does not prompt and does
\* not wait; nothing else prompts, so a request prompts at most once; and
\* without a terminal no request prompts.
C19_PromptOncePerBlockingRead ==
    [][
        /\ (NextLineCalled /\ buffer = <<>>)
              => /\ lineRes'.kind = "pending" /\ resolver' = "resolve"
                 /\ ~paused'
                 /\ lastRead' = IF terminal THEN "prompt" ELSE "resume"
        /\ (NextLineCalled /\ buffer # <<>>)
              => /\ lineRes' = Head(buffer) /\ buffer' = Tail(buffer)
                 /\ lastRead' = "buffer"
                 /\ resolver' = resolver /\ paused' = paused
        /\ ~NextLineCalled
              => (lastRead' = lastRead \/ lastRead' = "none")
        /\ lastRead = "prompt" => terminal
    ]_vars

\* C19 witness: with a terminal, after one line was returned, a request has
\* been served the buffered end-of-input without a prompt.
C19_Witness ==
    /\ terminal /\ pc = "reading"
    /\ lastRead = "buffer" /\ lineRes.kind = "eoi"
    /\ Len(returned) = 1

\* C20: a statement never has more than one stmt.get outstanding: getRow()
\* is called only while none is outstanding, the first time when prepare
\* succeeds and afterwards only when the previous fetch has produced a row;
\* and once stmt.finalize has been called for a statement no getRow() is
\* called for it.
C20_OneFetchNoneAfterFinalize ==
    [][
        /\ Len(getQ) <= 1
        /\ getQ # <<>> => (stmt # 0 /\ Head(getQ) = nextRowId)
        /\ FetchIssued
              => /\ getQ = <<>> /\ Len(getQ') = 1
                 /\ \/ pc = "preparing" /\ nextRowId = 0
                    \/ pc = "rowrace" /\ nextRow.kind = "row"
                 /\ finalizeCnt'[stmt'] = 0
        /\ ~FetchIssued => (getQ' = getQ \/ getQ' = Tail(getQ))
        /\ pc = "finalizing"
              => (finalizeCnt[stmt] = 1 /\ ~FetchIssued
                  /\ Len(getQ') <= Len(getQ))
    ]_vars

\* C20 witness: a statement interrupted after its first row is being
\* finalized while its one abandoned fetch is still outstanding.
C20_Witness ==
    /\ pc = "finalizing" /\ Len(getQ) = 1
    /\ exitPath[stmt] = "interrupt" /\ rowsAtExit[stmt] >= 1

====
